---- MODULE Spec2Model ----
(***************************************************************************)
(* Model of terraform-move-helper (src/main.py): the resources a plan      *)
(* deletes are correlated with the resources it creates, per resource      *)
(* type, by a weighted score, and a greedy loop pairs them off.            *)
(*                                                                         *)
(* Numbers.  The similarity metrics are reals in [0, 1]; they are held as  *)
(* integers in units of 1/Scale.  The weights of aggregate_scores are held *)
(* in tenths (10 -> 100, 0.5 -> 5, ...), so the weighted sum is an         *)
(* integer and total_weight is 145.  A quotient is held as the record      *)
(* [num, den] and two quotients are compared by cross-multiplication;      *)
(* float('-inf') is [num |-> -1, den |-> 0], which that comparison puts    *)
(* below every quotient with a positive denominator.                       *)
(* An address is the position of its entry in resource_changes, so the     *)
(* addresses of a plan are unique, as Terraform's are.                     *)
(***************************************************************************)
EXTENDS Integers, Sequences, FiniteSets, TLC

\* ------------------------------------------------------------------ bounds
\* Largest number of entries of plan['resource_changes'].
MaxRes == 4
\* Resolution of the metric grid: a metric takes the values 0/Scale .. Scale/Scale.
Scale == 2
\* Largest plan of the specification with fairness.
MaxResFair == 3

\* ------------------------------------------------------------ input domain
\* Resource types of the plan.
ResTypes == {"aws_instance", "aws_s3_bucket"}

\* A JSON value is a string leaf or a nested object; an object is the set of
\* its (key, value) items.
Str(s) == [kind |-> "str", val |-> s]
Obj(items) == [kind |-> "dict", val |-> items]

\* State snapshots (change.before / change.after) a resource can carry.
Snapshots ==
    { {},
      {<<"ami", Str("123")>>, <<"tags", Obj({<<"Name", Str("web")>>})>>} }

VARIABLES
    plan,                   \* the loaded plan: plan.resource_changes
    pc,                     \* position in main
    res_types,              \* types the scoring loop (l.129) has still to visit
    match_scores,           \* ordered rows [destroy, creates]; creates ordered
    best_matches,           \* accepted <<destroy, create, score>> triples
    unmatched_res_destroy,
    unmatched_res_create,
    move_commands

vars == <<plan, pc, res_types, match_scores, best_matches,
          unmatched_res_destroy, unmatched_res_create, move_commands>>

\* ---------------------------------------------------------------- helpers
RECURSIVE Concat(_)
Concat(ss) == IF ss = <<>> THEN <<>> ELSE Head(ss) \o Concat(Tail(ss))

Range(s) == {s[i] : i \in DOMAIN s}

\* ------------------------------------------------------- flatten / filters
\* flatten_dict: the (path, value) items of the leaves, a path being the
\* sequence of keys that sep joins.
RECURSIVE flatten_dict(_, _)
flatten_dict(d, parent_key) ==
    UNION { LET new_key == parent_key \o <<kv[1]>> IN
            IF kv[2].kind = "dict"
            THEN flatten_dict(kv[2].val, new_key)
            ELSE {<<new_key, kv[2].val>>}
          : kv \in d }

get_resource_state(resource, state_key) ==
    flatten_dict(resource.change[state_key], <<>>)

get_resource_changes(p) == p.resource_changes

filter_resources_by_action(resource_changes, action) ==
    SelectSeq(resource_changes, LAMBDA res : res.change.actions = <<action>>)

\* main l.117-122: destroyed_by_type / created_by_type; the keys in insertion
\* order are the types in order of first appearance.
RECURSIVE FirstSeen(_, _)
FirstSeen(types, seen) ==
    IF types = <<>> THEN <<>>
    ELSE IF Head(types) \in seen THEN FirstSeen(Tail(types), seen)
    ELSE <<Head(types)>> \o FirstSeen(Tail(types), seen \cup {Head(types)})

by_type_keys(resources) ==
    FirstSeen([i \in DOMAIN resources |-> resources[i].type], {})

by_type(resources, res_type) ==
    SelectSeq(resources, LAMBDA res : res.type = res_type)

destroyed_resources == filter_resources_by_action(get_resource_changes(plan), "delete")
created_resources == filter_resources_by_action(get_resource_changes(plan), "create")

\* Variant of created_by_type_get: the lookup ignores the type.
created_any_type(res_type) == created_resources

\* created_by_type.get(res_type, [])
created_by_type_get(res_type) == by_type(created_resources, res_type)

\* --------------------------------------------------------------- scoring
\* Results of the string-similarity libraries (jellyfish, difflib, sklearn)
\* after the normalisation of l.75 and l.82: every metric lies in [0, 1].
MetricNames ==
    {"levenshtein", "jaro_winkler", "damerau_levenshtein", "ratcliff_obershelp", "cosine"}

Profiles ==
    { [m \in MetricNames |-> 0],
      [m \in MetricNames |-> IF m \in {"levenshtein", "cosine"} THEN 1 ELSE Scale] }

\* compute_similarity_scores: lib is what the libraries answer for each
\* compared pair of addresses.
compute_similarity_scores(lib, address_destroy, address_create) ==
    lib[<<address_destroy, address_create>>]

\* Variant of weights: state_match weighs 1 instead of 10.
weights_flat ==
    [state_match |-> 10, levenshtein |-> 5, jaro_winkler |-> 10,
     damerau_levenshtein |-> 5, ratcliff_obershelp |-> 10, cosine |-> 15]

\* aggregate_scores l.97-104, in tenths.
weights ==
    [state_match |-> 100, levenshtein |-> 5, jaro_winkler |-> 10,
     damerau_levenshtein |-> 5, ratcliff_obershelp |-> 10, cosine |-> 15]

\* weights.get(alg, 1)
weights_get(alg) == IF alg \in DOMAIN weights THEN weights[alg] ELSE 10

RECURSIVE SumOver(_, _)
SumOver(f, keys) ==
    IF keys = {} THEN 0
    ELSE LET k == CHOOSE x \in keys : TRUE IN f[k] + SumOver(f, keys \ {k})

aggregate_scores(scores) ==
    LET total_weight == SumOver(weights, DOMAIN weights)
        weighted_score ==
            SumOver([alg \in DOMAIN scores |-> scores[alg] * weights_get(alg)], DOMAIN scores)
    IN  IF total_weight > 0
        THEN [num |-> weighted_score, den |-> total_weight * Scale]
        ELSE [num |-> 0, den |-> 1]

\* One cell of the matrix, l.55-64.  state_match is the size of the
\* intersection, held on the metric grid like the other scores.
pair_scores(lib, res_destroy, res_create) ==
    LET state_destroy == get_resource_state(res_destroy, "before")
        state_create == get_resource_state(res_create, "after")
        match_count == Cardinality(state_destroy \cap state_create)
        filled == { scores @@ [aggregated |-> aggregate_scores(scores)] :
                    scores \in { [state_match |-> match_count * Scale]
                                 @@ compute_similarity_scores(
                                        lib, res_destroy.address, res_create.address) } }
    IN  CHOOSE scores \in filled : TRUE

calculate_match_scores(destroyed, created, lib) ==
    [i \in DOMAIN destroyed |->
        [destroy |-> destroyed[i].address,
         creates |-> [j \in DOMAIN created |->
                        [create |-> created[j].address,
                         scores |-> pair_scores(lib, destroyed[i], created[j])]]]]

\* dict | dict: a key of the right operand replaces the left's value in
\* place, a new key is appended (the keys of a dict are unique).
dict_merge(left, right) ==
    [i \in DOMAIN left |->
        IF \E j \in DOMAIN right : right[j].destroy = left[i].destroy
        THEN right[CHOOSE j \in DOMAIN right : right[j].destroy = left[i].destroy]
        ELSE left[i]]
    \o SelectSeq(right, LAMBDA row : \A i \in DOMAIN left : left[i].destroy # row.destroy)

\* ---------------------------------------------------------------- solver
None == 0

NegInf == [num |-> -1, den |-> 0]

\* Variant of initial_best: the scan starts from a score of 0.
initial_best_zero ==
    [best_res_destroy |-> None, best_res_create |-> None,
     highest_aggregated_score |-> [num |-> 0, den |-> 1]]

\* l.146-148
initial_best ==
    [best_res_destroy |-> None, best_res_create |-> None,
     highest_aggregated_score |-> NegInf]

\* Variant of Greater: >= in place of >.
GreaterOrEqual(a, b) == a.num * b.den >= b.num * a.den

\* l.155: aggregated_score > highest_aggregated_score
Greater(a, b) == a.num * b.den > b.num * a.den

\* l.152-158: the inner loop over one row, from its j-th candidate on.
RECURSIVE scan_creates(_, _, _, _)
scan_creates(best, res_destroy, creates, j) ==
    IF j > Len(creates) THEN best
    ELSE LET aggregated_score == creates[j].scores.aggregated
             next == IF Greater(aggregated_score, best.highest_aggregated_score)
                     THEN [best_res_destroy |-> res_destroy,
                           best_res_create |-> creates[j].create,
                           highest_aggregated_score |-> aggregated_score]
                     ELSE best
         IN  scan_creates(next, res_destroy, creates, j + 1)

\* l.151: the outer loop over the rows, from the i-th on.
RECURSIVE scan_rows(_, _, _)
scan_rows(best, scores, i) ==
    IF i > Len(scores) THEN best
    ELSE scan_rows(scan_creates(best, scores[i].destroy, scores[i].creates, 1),
                   scores, i + 1)

\* Variant of find_best: the first pair met is taken, whatever its score.
find_first(scores) ==
    LET rows == SelectSeq(scores, LAMBDA row : row.creates # <<>>) IN
    IF rows = <<>> THEN initial_best
    ELSE [best_res_destroy |-> rows[1].destroy,
          best_res_create |-> rows[1].creates[1].create,
          highest_aggregated_score |-> rows[1].creates[1].scores.aggregated]

find_best(scores) == scan_rows(initial_best, scores, 1)

\* Variant of remove_create: the accepted create stays in the row.
keep_create(row, best_res_create) == row

\* l.169-170: del match_scores[res_destroy][best_res_create]
remove_create(row, best_res_create) ==
    [row EXCEPT !.creates = SelectSeq(@, LAMBDA cell : cell.create # best_res_create)]

\* Variant of drop_empty_rows: a row left without candidates stays.
keep_empty_rows(scores) == scores

\* l.173-174: a row left without candidates is deleted
drop_empty_rows(scores) == SelectSeq(scores, LAMBDA row : row.creates # <<>>)

\* Variant of remove_destroy: the accepted destroy keeps its row.
keep_destroy(scores, best_res_destroy) == scores

\* l.177-178: del match_scores[best_res_destroy]
remove_destroy(scores, best_res_destroy) ==
    SelectSeq(scores, LAMBDA row : row.destroy # best_res_destroy)

\* l.167-178
consume(scores, best_res_destroy, best_res_create) ==
    remove_destroy(
        drop_empty_rows([i \in DOMAIN scores |-> remove_create(scores[i], best_res_create)]),
        best_res_destroy)

\* l.138
initial_unmatched_destroy(scores) == {scores[i].destroy : i \in DOMAIN scores}

\* l.139-143
initial_unmatched_create(scores) ==
    UNION { {scores[i].creates[j].create : j \in DOMAIN scores[i].creates}
            : i \in DOMAIN scores }

\* l.193-195
render(match) == <<"terraform state mv", match[1], match[2]>>

\* ----------------------------------------------------------------- plans
Resource(address, type, actions, snapshot) ==
    [address |-> address, type |-> type,
     change |-> [actions |-> actions,
                 before |-> IF "delete" \in Range(actions) THEN snapshot ELSE {},
                 after |-> IF "create" \in Range(actions) THEN snapshot ELSE {}]]

\* What an entry of a plan carries besides its address: <<type, actions,
\* snapshot>>.  filter_resources_by_action looks at change.actions alone, so
\* an entry that is neither a pure delete nor a pure create is dropped
\* whatever else it carries: such entries come with one type and one snapshot.
EntryShapes ==
    (ResTypes \X {<<"delete">>, <<"create">>} \X Snapshots)
    \cup {<<"aws_instance", <<"delete", "create">>, {}>>}

IsPure(shape) == Len(shape[2]) = 1

\* The program reads a type only to compare it with another, so a plan and
\* the plan with the type names exchanged run alike: of the two, the one
\* whose first pure entry is an aws_instance is kept.
Canonical(shapes) ==
    \A i \in DOMAIN shapes :
        (IsPure(shapes[i]) /\ \A k \in 1..(i - 1) : ~IsPure(shapes[k]))
            => shapes[i][1] = "aws_instance"

PlanOf(shapes) ==
    [resource_changes |->
        [i \in DOMAIN shapes |-> Resource(i, shapes[i][1], shapes[i][2], shapes[i][3])]]

\* --------------------------------------------------------------- actions
Init ==
    /\ plan = [resource_changes |-> <<>>]
    /\ pc = "start"
    /\ res_types = <<>>
    /\ match_scores = <<>>
    /\ best_matches = <<>>
    /\ unmatched_res_destroy = {}
    /\ unmatched_res_create = {}
    /\ move_commands = <<>>

\* l.111-128: load the plan file, filter, group; the scoring loop starts on
\* the keys of destroyed_by_type.
LoadUpTo(max) ==
    /\ pc = "start"
    /\ \E n \in 0..max : \E shapes \in [1..n -> EntryShapes] :
          /\ Canonical(shapes)
          /\ plan' = PlanOf(shapes)
    /\ res_types' = by_type_keys(destroyed_resources)'
    /\ pc' = "score"
    /\ UNCHANGED <<match_scores, best_matches, unmatched_res_destroy,
                   unmatched_res_create, move_commands>>

Load == LoadUpTo(MaxRes)

LoadFair == LoadUpTo(MaxResFair)

\* l.129-133: one iteration of the scoring loop.
ScoreType ==
    /\ pc = "score"
    /\ res_types # <<>>
    /\ \E destroyed \in {by_type(destroyed_resources, Head(res_types))} :
       \E created \in {created_by_type_get(Head(res_types))} :
       \E lib \in [{<<destroyed[i].address, created[j].address>> :
                      i \in DOMAIN destroyed, j \in DOMAIN created} -> Profiles] :
          match_scores' =
              dict_merge(match_scores, calculate_match_scores(destroyed, created, lib))
    /\ res_types' = Tail(res_types)
    /\ UNCHANGED <<plan, pc, best_matches, unmatched_res_destroy,
                   unmatched_res_create, move_commands>>

\* l.135-143
InitUnmatched ==
    /\ pc = "score"
    /\ res_types = <<>>
    /\ unmatched_res_destroy' = initial_unmatched_destroy(match_scores)
    /\ unmatched_res_create' = initial_unmatched_create(match_scores)
    /\ pc' = "loop"
    /\ UNCHANGED <<plan, res_types, match_scores, best_matches, move_commands>>

\* l.145-181: one round of the greedy loop that accepts a pair.
Round ==
    /\ pc = "loop"
    /\ match_scores # <<>>
    /\ LET best == find_best(match_scores) IN
       /\ ~(best.best_res_destroy = None \/ best.best_res_create = None)
       /\ best_matches' =
              Append(best_matches,
                     <<best.best_res_destroy, best.best_res_create,
                       best.highest_aggregated_score>>)
       /\ match_scores' = consume(match_scores, best.best_res_destroy, best.best_res_create)
       /\ unmatched_res_create' = unmatched_res_create \ {best.best_res_create}
       /\ unmatched_res_destroy' = unmatched_res_destroy \ {best.best_res_destroy}
    /\ UNCHANGED <<plan, pc, res_types, move_commands>>

\* l.145 / l.161-162: the loop ends on an empty matrix, or breaks when the
\* scan finds no pair; l.183-202: the commands are rendered and written.
Finish ==
    /\ pc = "loop"
    /\ \/ match_scores = <<>>
       \/ LET best == find_best(match_scores) IN
            best.best_res_destroy = None \/ best.best_res_create = None
    /\ move_commands' = [i \in DOMAIN best_matches |-> render(best_matches[i])]
    /\ pc' = "done"
    /\ UNCHANGED <<plan, res_types, match_scores, best_matches,
                   unmatched_res_destroy, unmatched_res_create>>

Next == Load \/ ScoreType \/ InitUnmatched \/ Round \/ Finish

Spec == Init /\ [][Next]_vars

\* main is one thread that runs to its end: once the plan is read, the step
\* it stands at is taken.
Run == ScoreType \/ InitUnmatched \/ Round \/ Finish

NextFair == LoadFair \/ ScoreType \/ InitUnmatched \/ Round \/ Finish

FairSpec == Init /\ [][NextFair]_vars /\ WF_vars(Run)

\* ============================================================ properties
Removed == {destroyed_resources[i].address : i \in DOMAIN destroyed_resources}
Added == {created_resources[i].address : i \in DOMAIN created_resources}
TypeOf(address) == plan.resource_changes[address].type
RemovedOf(ty) == {d \in Removed : TypeOf(d) = ty}
AddedOf(ty) == {c \in Added : TypeOf(c) = ty}

MatchedDestroy == {best_matches[i][1] : i \in DOMAIN best_matches}
MatchedCreate == {best_matches[i][2] : i \in DOMAIN best_matches}

\* The candidate pairs of a matrix in its iteration order: row after row,
\* each row from its first candidate to its last.
Cells(scores) ==
    Concat([i \in DOMAIN scores |->
              [j \in DOMAIN scores[i].creates |->
                 [destroy |-> scores[i].destroy,
                  create |-> scores[i].creates[j].create,
                  scores |-> scores[i].creates[j].scores]]])

\* a < b for two quotients with positive denominators
Below(a, b) == a.num * b.den < b.num * a.den

Ended == pc = "done"

\* A step of the greedy loop that accepts a pair, and the pair it accepts.
Accepts == Len(best_matches') = Len(best_matches) + 1
Accepted == best_matches'[Len(best_matches')]

\* C1: when main has finished, the accepted identifiers and the unmatched
\* set of each side partition all removed (resp. added) identifiers.
C1_Partition ==
    Ended =>
        /\ MatchedDestroy \cup unmatched_res_destroy = Removed
        /\ MatchedDestroy \cap unmatched_res_destroy = {}
        /\ MatchedCreate \cup unmatched_res_create = Added
        /\ MatchedCreate \cap unmatched_res_create = {}

\* C2: in every state each removed identifier and each added identifier is
\* in at most one accepted pair, and no accepted identifier is in its side's
\* unmatched set.
C2_OneToOne ==
    /\ \A i, j \in DOMAIN best_matches :
          i # j => /\ best_matches[i][1] # best_matches[j][1]
                   /\ best_matches[i][2] # best_matches[j][2]
    /\ MatchedDestroy \cap unmatched_res_destroy = {}
    /\ MatchedCreate \cap unmatched_res_create = {}

C2_Witness == Ended /\ Len(best_matches) >= 2

\* C3: when main has finished, the removed identifiers of a type without
\* added items are all in the unmatched-removed set, and the added
\* identifiers of a type without removed items are all in the
\* unmatched-added set.
C3_OneSidedTypes ==
    Ended =>
        \A ty \in ResTypes :
            /\ (RemovedOf(ty) # {} /\ AddedOf(ty) = {})
                   => RemovedOf(ty) \subseteq unmatched_res_destroy
            /\ (AddedOf(ty) # {} /\ RemovedOf(ty) = {})
                   => AddedOf(ty) \subseteq unmatched_res_create

\* C4: a candidate pair leaves the matrix only in a step that accepts a
\* pair sharing its removed or its added identifier, and the accepted
\* pair's score is not below the score of the pair that leaves.
C4_GreedyRule ==
    [][ \A cell \in Range(Cells(match_scores)) \ Range(Cells(match_scores')) :
            /\ Accepts
            /\ cell.destroy = Accepted[1] \/ cell.create = Accepted[2]
            /\ ~Below(Accepted[3], cell.scores.aggregated) ]_vars

C4_Witness ==
    /\ Ended
    /\ best_matches # <<>>
    /\ \E d \in Removed, c \in Added :
          /\ TypeOf(d) = TypeOf(c)
          /\ \A i \in DOMAIN best_matches :
                best_matches[i][1] # d \/ best_matches[i][2] # c

\* C5: the pair a round accepts has the largest aggregated score of all
\* pairs left in the matrix, and of the pairs with that score it is the
\* first in iteration order.
C5_FirstMaximum ==
    [][ Accepts =>
          LET cells == Cells(match_scores) IN
          \E k \in DOMAIN cells :
              /\ Accepted = <<cells[k].destroy, cells[k].create, cells[k].scores.aggregated>>
              /\ \A m \in DOMAIN cells :
                    ~Below(cells[k].scores.aggregated, cells[m].scores.aggregated)
              /\ \A m \in 1..(k - 1) :
                    Below(cells[m].scores.aggregated, cells[k].scores.aggregated) ]_vars

\* a tie was decided: a pair with the accepted pair's score is still there
C5_Witness ==
    /\ pc = "loop"
    /\ Len(best_matches) = 1
    /\ \E cell \in Range(Cells(match_scores)) :
          /\ ~Below(cell.scores.aggregated, best_matches[1][3])
          /\ ~Below(best_matches[1][3], cell.scores.aggregated)

\* C6: every pair of the matrix and every accepted pair joins a removed and
\* an added item of one type.
C6_SameType ==
    /\ \A cell \in Range(Cells(match_scores)) : TypeOf(cell.destroy) = TypeOf(cell.create)
    /\ \A i \in DOMAIN best_matches :
          TypeOf(best_matches[i][1]) = TypeOf(best_matches[i][2])

C6_Witness ==
    /\ Ended
    /\ \E i, j \in DOMAIN best_matches :
          TypeOf(best_matches[i][1]) # TypeOf(best_matches[j][1])

\* C7 as stated: from the moment the matrix is built, no key maps to an
\* empty candidate mapping.
C7_KeyIffCandidates ==
    pc \in {"loop", "done"} =>
        \A i \in DOMAIN match_scores : match_scores[i].creates # <<>>

\* C7 as amended: once a pair has been accepted no key maps to an empty
\* candidate mapping; before that, a key with an empty mapping is a removed
\* item whose type has no added item.
C7_KeysAfterAccept ==
    \A i \in DOMAIN match_scores :
        match_scores[i].creates = <<>> =>
            /\ best_matches = <<>>
            /\ AddedOf(TypeOf(match_scores[i].destroy)) = {}

\* a row ran out of candidates and was deleted
C7_Witness ==
    /\ pc = "loop"
    /\ best_matches # <<>>
    /\ \E d \in unmatched_res_destroy :
          /\ AddedOf(TypeOf(d)) # {}
          /\ \A i \in DOMAIN match_scores : match_scores[i].destroy # d

\* C8: a round that accepts a pair leaves the matrix with fewer keys, the
\* loop once entered comes to its end, and at the end the matrix holds no
\* candidate pair.
C8_Terminates ==
    /\ [][Accepts => Len(match_scores') < Len(match_scores)]_vars
    /\ (pc = "loop") ~> Ended
    /\ [](Ended => Cells(match_scores) = <<>>)

C8_Witness == Ended /\ best_matches # <<>> /\ unmatched_res_create # {}

\* C9: every pair's aggregated score is
\* (10 state_match + 0.5 levenshtein + jaro_winkler + 0.5 damerau_levenshtein
\*  + ratcliff_obershelp + 1.5 cosine) / 14.5, a pair with a larger
\* structural overlap has a larger aggregated score, and a round never
\* accepts a pair while a pair with a larger overlap is left.
C9_Formula(sc) ==
    sc.aggregated.num * (145 * Scale) =
        sc.aggregated.den *
            (100 * sc.state_match + 5 * sc.levenshtein + 10 * sc.jaro_winkler
             + 5 * sc.damerau_levenshtein + 10 * sc.ratcliff_obershelp + 15 * sc.cosine)

C9_OverlapDominates ==
    /\ [](\A p \in Range(Cells(match_scores)) :
            /\ C9_Formula(p.scores)
            /\ \A q \in Range(Cells(match_scores)) :
                  p.scores.state_match > q.scores.state_match
                      => Below(q.scores.aggregated, p.scores.aggregated))
    /\ [][ Accepts =>
             \A p, q \in Range(Cells(match_scores)) :
                 (p.destroy = Accepted[1] /\ p.create = Accepted[2])
                     => q.scores.state_match <= p.scores.state_match ]_vars

\* the larger overlap comes with the smaller textual similarity
C9_Witness ==
    /\ pc = "loop"
    /\ \E p, q \in Range(Cells(match_scores)) :
          /\ p.scores.state_match > q.scores.state_match
          /\ \A m \in MetricNames : p.scores[m] < q.scores[m]

\* C10: when main has finished, each type has min(removed, added) accepted
\* pairs, and no removed and added identifier of one type are both outside
\* the accepted pairs.
Min(a, b) == IF a <= b THEN a ELSE b

C10_Maximal ==
    Ended =>
        /\ \A ty \in ResTypes :
              Cardinality({i \in DOMAIN best_matches : TypeOf(best_matches[i][1]) = ty})
                  = Min(Cardinality(RemovedOf(ty)), Cardinality(AddedOf(ty)))
        /\ \A d \in Removed \ MatchedDestroy, c \in Added \ MatchedCreate :
              TypeOf(d) # TypeOf(c)

\* a pair was accepted with an aggregated score of 0
C10_Witness ==
    /\ Ended
    /\ \E i \in DOMAIN best_matches : best_matches[i][3].num = 0

====
